---- MODULE Spec2Model ----
(***************************************************************************)
(* Model of the gamer_x LangGraph workflow (src/src/gamer_x/agent.py and   *)
(* the node functions under src/src/gamer_x/utils/nodes/).                 *)
(*                                                                         *)
(* One session is a walk of the compiled StateGraph.  The state variables  *)
(* are the keys of the graph state the nodes read and write; pc is the     *)
(* node the executor runs next.  One action models one node: the node's    *)
(* body, the merge of its patch into the state, and the evaluation of the  *)
(* outgoing edge (a fixed edge or a router) on the merged state.  The      *)
(* external capabilities (LLM agents, tools) are nondeterministic inputs   *)
(* drawn with \E: a capability either answers or raises.                   *)
(*                                                                         *)
(* An exception that leaves a node or a router leaves app.ainvoke: the     *)
(* walk stops in pc = "ABORT" and `raised` names the exception.            *)
(***************************************************************************)
EXTENDS Integers, Sequences, FiniteSets, TLC

\* ------------------------------------------------------------------ bounds
\* Largest number of tool invocations one agent response carries.
MaxToolCalls == 1
\* Largest value of a branch counter in the state a session is started with.
MaxCarriedCount == 5
\* Largest number of invocations in the request a tool step is checked on alone.
MaxStepCalls == 3
\* The values of a branch counter in that state: none carried, or one left
\* behind by an earlier session.
CarriedCounts == { 0, MaxCarriedCount }

\* ------------------------------------------------------- program constants
\* mongodb.py:51  `elif mongodb_call_count > 4`
MongoCallLimit == 4
\* python.py:302  `if python_execute_count >= 3`
PythonExecuteLimit == 3

\* ------------------------------------------------------------- vocabulary
END == "END"
ABORT == "ABORT"

\* agent.py:37-46, the nodes registered with workflow.add_node
Nodes ==
  { "set_query", "get_schema_context", "execute_mongodb_query",
    "mongodb_execute_tools", "code_query_assignment", "python_formatter",
    "python_summarizer", "python_executor", "validate_python_script" }

\* A key the state does not hold (dict.get falls back to its default).
Absent == "<absent>"

\* "populated": the key is present and its text is not empty.
Populated(v) == v # Absent /\ v # ""

\* Texts of the user's message (agent.py:128-131, interface/app.py:65).
Queries == { "which projects have the most assets?" }

\* code_query_assignment's docstring names "mongodb_query" and "python";
\* should_execute tests for "python_script_execute" (python.py:115).
Routes == { "mongodb_query", "python", "python_script_execute" }

\* Labels of the reformat decision: python.py:326-329 documents "reformat" and
\* "no_reformat", agent.py:105-108 registers "yes" and "no".
ReformatLabels == { "reformat", "no_reformat", "yes", "no" }

\* Texts of the exceptions a capability call raises.
TooLongText == "ValidationException: Input is too long for requested model"
OtherErrorText == "ThrottlingException: Too many requests"
ErrorTexts == { TooLongText, OtherErrorText }

\* mongodb.py:168  `"Input is too long for requested model" in error_message`
ContainsInputTooLong(error_message) == error_message = TooLongText

\* mongodb.py:171, the user-facing text stored in `error`
TooLongUserMessage ==
  "Data retrieved is too long for the model to synthesize. Reduce the size of the input, context, or query."

\* -------------------------------------------------------------- messages
\* langchain messages.  Only AIMessage has the attribute tool_calls; for the
\* other types the field is a placeholder and HasToolCallsAttr is FALSE.
HumanMessage(c) ==
  [type |-> "human", content |-> c, tool_calls |-> <<>>, name |-> "", tool_call_id |-> 0]
AIMessage(c, calls) ==
  [type |-> "ai", content |-> c, tool_calls |-> calls, name |-> "", tool_call_id |-> 0]
ToolMessage(c, n, id) ==
  [type |-> "tool", content |-> c, tool_calls |-> <<>>, name |-> n, tool_call_id |-> id]

HasToolCallsAttr(m) == m.type = "ai"

\* A tool invocation requested by an agent: name, args and identifier.
ToolCall(n, i) == [name |-> n, args |-> "args", id |-> i]

\* The tool_calls lists an agent bound to tool `n` can return: 0..MaxToolCalls
\* invocations, identified by their position.
ToolCallLists(n) ==
  { [i \in 1..k |-> ToolCall(n, i)] : k \in 0..MaxToolCalls }

\* What a tool invocation does: returns a result or raises.
ToolOutcomes == { "ok", "raise" }

\* json.dumps(tool_result) / str(e)   (mongodb.py:95-97, python.py:257-259)
JsonDumps(result) == IF result = "records" THEN "[\"records\"]" ELSE "null"
ToolErrorText == "ToolException: tool call failed"

Last(s) == s[Len(s)]

\* ------------------------------------------------------------------ state
VARIABLES
  pc,                    \* the node the executor runs next, END or ABORT
  messages,              \* state["messages"]
  query,                 \* state["query"]
  code_or_query,         \* state["code_or_query"]
  schema_context,        \* state["schema_context"]
  schema_call_count,     \* state["schema_call_count"]
  mongodb_call_count,    \* state["mongodb_call_count"]
  mongodb_output,        \* state["mongodb_output"]
  mongodb_query,         \* state["mongodb_query"]
  python_execute_count,  \* state["python_execute_count"]
  python_code,           \* state["python_code"]
  python_code_response,  \* state["python_code_response"]
  generation,            \* state["generation"]
  error,                 \* state["error"]
  reformat,              \* the label should_reformat returned last (python.py:349)
  label,                 \* what the router evaluated last returned
  tool_results,          \* what each invocation of the last tool step did
  raised,                \* the exception that left app.ainvoke, or "none"
  before,                \* the branch counters the last step found in the state
  snapshot,              \* state["schema_context"] of the state object the last node
                         \* was called with, read after the node returned
  runs,                  \* how many times each node has been executed
  turn,                  \* which invocation of app these variables belong to
  other                  \* the state of the other invocation, or NoSession

fields ==
  << messages, query, code_or_query, schema_context, schema_call_count,
     mongodb_call_count, mongodb_output, mongodb_query, python_execute_count,
     python_code, python_code_response, generation, error >>

vars ==
  << pc, fields, reformat, label, tool_results, raised, before, snapshot, runs,
     turn, other >>

\* ------------------------------------------------- capability behaviours
\* A capability call answers with a message or raises an exception.
Response(c, calls) == [kind |-> "response", content |-> c, tool_calls |-> calls, text |-> ""]
Raises(t) == [kind |-> "raise", content |-> "", tool_calls |-> <<>>, text |-> t]

\* SONNET_4_LLM.ainvoke (no tools bound): schema_context.py:71, python.py:148
LlmOutcomes(c) == { Response(c, <<>>) } \cup { Raises(t) : t \in ErrorTexts }

\* An agent bound to tools: mongodb.py:160, python.py:205
AgentOutcomes(c, tool) ==
  { Response(c, calls) : calls \in ToolCallLists(tool) } \cup { Raises(t) : t \in ErrorTexts }

\* A patch that stands for an exception leaving the node.
Raise(exc) == [raise |-> exc]
IsRaise(patch) == "raise" \in DOMAIN patch

Get(patch, key, default) == IF key \in DOMAIN patch THEN patch[key] ELSE default

\* ------------------------------------------------------------------ nodes
\* Each operator is the node function of the same name: from the state and the
\* behaviour of the capability it calls to the patch it returns.

\* Faulty variant of set_query: the query is the placeholder the later nodes
\* fall back to, not the user's message.
set_query_Placeholder ==
  [ query |-> "No query was provided",
    mongodb_call_count |-> 0,
    schema_call_count |-> 0,
    python_execute_count |-> 0,
    python_code_response |-> "Code hasn't been executed yet" ]

\* Faulty variant of set_query: the counter of the code branch is not reset.
set_query_KeepsPythonCount ==
  [ query |-> Last(messages).content,
    mongodb_call_count |-> 0,
    schema_call_count |-> 0,
    python_code_response |-> "Code hasn't been executed yet" ]

set_query ==
  [ query |-> Last(messages).content,
    mongodb_call_count |-> 0,
    schema_call_count |-> 0,
    python_execute_count |-> 0,
    python_code_response |-> "Code hasn't been executed yet" ]

\* Faulty variant of get_schema_context: the list is returned without the
\* fragment of this call.
get_schema_context_DropsFragment(outcome) ==
  IF outcome.kind = "raise" THEN Raise(outcome.text)
  ELSE [ messages |-> << AIMessage(outcome.content, outcome.tool_calls) >>,
         schema_context |-> schema_context ]

\* No try/except around the call: an exception of the capability leaves the node.
get_schema_context(outcome) ==
  IF outcome.kind = "raise" THEN Raise(outcome.text)
  ELSE [ messages |-> << AIMessage(outcome.content, outcome.tool_calls) >>,
         \* schema_context.append(response.content); the whole list is returned
         schema_context |-> Append(schema_context, outcome.content) ]

\* outcome is the route the classification agent answers with, or a raise.
code_query_assignment(outcome) ==
  IF outcome.kind = "raise" THEN Raise(outcome.text)
  ELSE [ code_or_query |-> outcome.content ]

\* Faulty variant of InputTooLongPatch: the failure text is also stored as the answer,
\* the way the code-branch nodes store their error_msg in `generation`.
InputTooLongPatch_AlsoGeneration ==
  [ messages |-> <<>>, error |-> TooLongUserMessage, generation |-> TooLongUserMessage ]

\* mongodb.py:169-172, the patch returned for "Input is too long"
InputTooLongPatch ==
  [ messages |-> <<>>, error |-> TooLongUserMessage ]

\* Faulty variant of execute_mongodb_query: the final answer is appended to the
\* log but not stored as the generation.
execute_mongodb_query_NoGeneration(outcome) ==
  IF outcome.kind = "raise"
    THEN IF ContainsInputTooLong(outcome.text)
           THEN InputTooLongPatch
           ELSE Raise("UnboundLocalError")
    ELSE [ messages |-> << AIMessage(outcome.content, outcome.tool_calls) >> ]

\* Faulty variant of execute_mongodb_query: the content of a response that
\* requests tool invocations is stored as the answer too.
execute_mongodb_query_AlwaysGeneration(outcome) ==
  IF outcome.kind = "raise"
    THEN IF ContainsInputTooLong(outcome.text)
           THEN InputTooLongPatch
           ELSE Raise("UnboundLocalError")
    ELSE LET response == AIMessage(outcome.content, outcome.tool_calls) IN
         [ messages |-> << response >>, generation |-> response.content ]

execute_mongodb_query(outcome) ==
  IF outcome.kind = "raise"
    THEN IF ContainsInputTooLong(outcome.text)
           THEN InputTooLongPatch
           \* falls through to `return {"messages": [response]}` with
           \* `response` never assigned
           ELSE Raise("UnboundLocalError")
    ELSE LET response == AIMessage(outcome.content, outcome.tool_calls) IN
         IF response.tool_calls = <<>>
           THEN [ messages |-> << response >>, generation |-> response.content ]
           ELSE [ messages |-> << response >> ]

\* The content of the tool message for one invocation: try/except around
\* ainvoke and json.dumps.
ToolContent(outcomeOfCall) ==
  IF outcomeOfCall = "ok" THEN JsonDumps("records") ELSE ToolErrorText

\* Faulty variant of ToolOutputs: the message is built after the loop, for the
\* last invocation only.
ToolOutputs_AfterLoop(calls, results) ==
  IF calls = <<>> THEN <<>>
  ELSE << ToolMessage(ToolContent(results[Len(calls)]),
                      calls[Len(calls)].name, calls[Len(calls)].id) >>

\* The ToolMessages appended for the tool_calls of the last message;
\* results[i] is what invocation i does.
ToolOutputs(calls, results) ==
  [ i \in 1..Len(calls) |-> ToolMessage(ToolContent(results[i]), calls[i].name, calls[i].id) ]

\* mongodb.py:94: the args of the invocations that succeeded, in order
SucceededArgs(calls, results) ==
  LET idx == SelectSeq([i \in 1..Len(calls) |-> i], LAMBDA i : results[i] = "ok")
  IN  [ k \in 1..Len(idx) |-> calls[idx[k]].args ]

\* Faulty variant of get_mongodb_execute_tools: the counter counts the
\* invocations that succeeded, not the executions of the step.
get_mongodb_execute_tools_CountsSuccesses(results) ==
  IF ~HasToolCallsAttr(Last(messages)) THEN Raise("AttributeError")
  ELSE LET calls == Last(messages).tool_calls
           outputs == ToolOutputs(calls, results)
       IN  [ messages |-> outputs,
             mongodb_output |-> outputs,
             mongodb_query |-> SucceededArgs(calls, results),
             mongodb_call_count |-> mongodb_call_count + Len(SucceededArgs(calls, results)) ]

\* Faulty variant of get_mongodb_execute_tools: no try/except around the
\* invocation, a failing tool leaves the node.
get_mongodb_execute_tools_Uncaught(results) ==
  IF \E i \in DOMAIN results : results[i] = "raise" THEN Raise(ToolErrorText)
  ELSE LET calls == Last(messages).tool_calls
           outputs == ToolOutputs(calls, results)
       IN  [ messages |-> outputs,
             mongodb_output |-> outputs,
             mongodb_query |-> SucceededArgs(calls, results),
             mongodb_call_count |-> mongodb_call_count + 1 ]

get_mongodb_execute_tools(results) ==
  IF ~HasToolCallsAttr(Last(messages)) THEN Raise("AttributeError")
  ELSE LET calls == Last(messages).tool_calls
           outputs == ToolOutputs(calls, results)
       IN  [ messages |-> outputs,
             mongodb_output |-> outputs,
             mongodb_query |-> SucceededArgs(calls, results),
             mongodb_call_count |-> mongodb_call_count + 1 ]

\* f"Python formatter failed: {str(e)}" and its siblings
FailedText(who, e) == who \o " failed: " \o e

\* Faulty variant of python_formatter: a failed generation is reported in
\* `error` and leaves the code as it was.
python_formatter_FailureAsError(outcome) ==
  IF outcome.kind = "raise"
    THEN LET error_msg == FailedText("Python formatter", outcome.text) IN
         [ messages |-> << AIMessage(error_msg, <<>>) >>,
           error |-> error_msg ]
    ELSE [ messages |-> << HumanMessage(outcome.content) >>,
           python_code |-> outcome.content,
           generation |-> outcome.content ]

\* Faulty variant of python_formatter: once the code is generated the route is
\* set back to plain code generation.
python_formatter_ResetsRoute(outcome) ==
  IF outcome.kind = "raise"
    THEN LET error_msg == FailedText("Python formatter", outcome.text) IN
         [ messages |-> << AIMessage(error_msg, <<>>) >>,
           python_code |-> error_msg,
           generation |-> error_msg ]
    ELSE [ messages |-> << HumanMessage(outcome.content) >>,
           python_code |-> outcome.content,
           generation |-> outcome.content,
           code_or_query |-> "python" ]

python_formatter(outcome) ==
  IF outcome.kind = "raise"
    THEN LET error_msg == FailedText("Python formatter", outcome.text) IN
         [ messages |-> << AIMessage(error_msg, <<>>) >>,
           python_code |-> error_msg,
           generation |-> error_msg ]
    \* "messages": [python_code] is a plain string: it enters the log as a
    \* message without the attribute tool_calls
    ELSE [ messages |-> << HumanMessage(outcome.content) >>,
           python_code |-> outcome.content,
           generation |-> outcome.content ]

python_summarizer(outcome) ==
  IF outcome.kind = "raise"
    THEN LET error_msg == FailedText("Python summarizer", outcome.text) IN
         [ messages |-> << AIMessage(error_msg, <<>>) >>, generation |-> error_msg ]
    ELSE [ messages |-> << AIMessage(outcome.content, outcome.tool_calls) >>,
           generation |-> outcome.content ]

\* Faulty variant of python_executor: the failure text is stored under `error`,
\* as execute_mongodb_query does, and generation keeps its earlier value.
python_executor_FailureAsError(outcome) ==
  IF outcome.kind = "raise"
    THEN LET error_msg == FailedText("Python executor", outcome.text) IN
         [ messages |-> << AIMessage(error_msg, <<>>) >>, error |-> error_msg ]
    ELSE [ messages |-> << AIMessage(outcome.content, outcome.tool_calls) >>,
           generation |-> outcome.content ]

python_executor(outcome) ==
  IF outcome.kind = "raise"
    THEN LET error_msg == FailedText("Python executor", outcome.text) IN
         [ messages |-> << AIMessage(error_msg, <<>>) >>, generation |-> error_msg ]
    ELSE [ messages |-> << AIMessage(outcome.content, outcome.tool_calls) >>,
           generation |-> outcome.content ]

\* Faulty variant of run_python_script: the execution is also counted in the
\* counter of the data-query branch.
run_python_script_CountsBoth(results) ==
  IF ~HasToolCallsAttr(Last(messages)) THEN Raise("AttributeError")
  ELSE LET calls == Last(messages).tool_calls
           outputs == ToolOutputs(calls, results)
       IN  IF calls = <<>> THEN Raise("UnboundLocalError")
           ELSE [ messages |-> outputs,
                  python_code_response |-> Last(outputs).content,
                  python_execute_count |-> python_execute_count + 1,
                  mongodb_call_count |-> mongodb_call_count + 1 ]

run_python_script(results) ==
  IF ~HasToolCallsAttr(Last(messages)) THEN Raise("AttributeError")
  ELSE LET calls == Last(messages).tool_calls
           outputs == ToolOutputs(calls, results)
       IN  \* `content` is assigned in the loop only
           IF calls = <<>> THEN Raise("UnboundLocalError")
           ELSE [ messages |-> outputs,
                  python_code_response |-> Last(outputs).content,
                  python_execute_count |-> python_execute_count + 1 ]

\* ---------------------------------------------------------------- routers
\* A router returns a label; the name of an exception stands for raising it.
\* Faulty variant of code_query_router: the classification is compared with the
\* label of the edge instead of the route "mongodb_query".
code_query_router_ComparesLabel(route) ==
  IF route = "mongodb" THEN "mongodb" ELSE "python"

code_query_router(route) ==
  IF route = "mongodb_query" THEN "mongodb" ELSE "python"

\* Faulty variant of should_execute: the router keeps count of its evaluations
\* and lets the code be executed on the first one only.
should_execute_FirstEvaluationOnly(route) ==
  IF route = "python_script_execute" /\ runs["python_formatter"] = 0
    THEN "execute" ELSE "summarize"

\* Faulty variant of should_execute: every route of the code branch is executed.
should_execute_AnyCodeRoute(route) ==
  IF route \in { "python", "python_script_execute" } THEN "execute" ELSE "summarize"

should_execute(route) ==
  IF route = "python_script_execute" THEN "execute" ELSE "summarize"

\* Faulty variant of should_continue_mongodb: the loop is allowed one more cycle.
should_continue_mongodb_OneMore(msgs, count) ==
  IF ~HasToolCallsAttr(Last(msgs)) THEN "AttributeError"
  ELSE IF Last(msgs).tool_calls = <<>> THEN "end"
  ELSE IF count > MongoCallLimit + 1 THEN "end"
  ELSE "continue"

\* Faulty variant of should_continue_mongodb: only the counter ends the loop.
should_continue_mongodb_CounterOnly(msgs, count) ==
  IF ~HasToolCallsAttr(Last(msgs)) THEN "AttributeError"
  ELSE IF count > MongoCallLimit THEN "end"
  ELSE "continue"

\* `last_message.tool_calls` is read without hasattr: a message that is not an
\* AIMessage raises AttributeError.
should_continue_mongodb(msgs, count) ==
  IF ~HasToolCallsAttr(Last(msgs)) THEN "AttributeError"
  ELSE IF Last(msgs).tool_calls = <<>> THEN "end"
  ELSE IF count > MongoCallLimit THEN "end"
  ELSE "continue"

\* Faulty variant of should_continue_python_run: only the counter is tested.
should_continue_python_run_CounterOnly(msgs, count) ==
  IF count >= PythonExecuteLimit THEN "end" ELSE "continue"

\* Faulty variant of should_continue_python_run: the counter test is strict.
should_continue_python_run_Strict(msgs, count) ==
  IF count > PythonExecuteLimit THEN "end"
  ELSE IF ~HasToolCallsAttr(Last(msgs)) \/ Last(msgs).tool_calls = <<>> THEN "end"
  ELSE "continue"

should_continue_python_run(msgs, count) ==
  IF count >= PythonExecuteLimit THEN "end"
  ELSE IF ~HasToolCallsAttr(Last(msgs)) \/ Last(msgs).tool_calls = <<>> THEN "end"
  ELSE "continue"

\* outcome is the answer of script_reformat_agent (its label in content) or a
\* raise; no try/except.
should_reformat(outcome) ==
  IF outcome.kind = "raise" THEN outcome.text ELSE outcome.content

\* --------------------------------------------------------------- executor
\* The compiled graph: agent.py:49-109.
FixedEdges ==
  [ set_query |-> "get_schema_context",
    get_schema_context |-> "code_query_assignment",
    mongodb_execute_tools |-> "execute_mongodb_query",
    python_summarizer |-> END ]

ConditionalEdges ==
  [ code_query_assignment |->
      [ mongodb |-> "execute_mongodb_query", python |-> "python_formatter" ],
    execute_mongodb_query |->
      [ continue |-> "mongodb_execute_tools", end |-> END ],
    python_formatter |->
      [ execute |-> "python_executor", summarize |-> "python_summarizer" ],
    python_executor |->
      [ continue |-> "validate_python_script", end |-> END ],
    validate_python_script |->
      [ yes |-> "python_formatter", no |-> "python_executor" ] ]

\* The exceptions a router can raise instead of returning a label.
RouterExceptions == { "AttributeError" } \cup ErrorTexts

\* Where the walk goes after `node` when its router returned `result`: the
\* registered target of the label; a label without a registered target is a
\* KeyError in the executor, an exception of the router leaves the walk.
Target(node, result) ==
  IF result \in RouterExceptions THEN ABORT
  ELSE IF result \in DOMAIN ConditionalEdges[node] THEN ConditionalEdges[node][result]
  ELSE ABORT

Exception(node, result) ==
  IF result \in RouterExceptions THEN result
  ELSE IF result \in DOMAIN ConditionalEdges[node] THEN "none"
  ELSE "KeyError"

\* Faulty variant of MergeAppend: the value of the patch replaces the sequence.
MergeAppend_Replaces(old, patch, key) == Get(patch, key, old)

\* The merge of a patch into the state: `messages` and `schema_context` are
\* appended to, every other key is replaced by the patch's value.
MergeAppend(old, patch, key) == old \o Get(patch, key, <<>>)
MergeReplace(old, patch, key) == Get(patch, key, old)

\* `held` is the schema_context sequence the store holds when the patch arrives.
MergeInto(held, patch) ==
  /\ messages' = MergeAppend(messages, patch, "messages")
  /\ schema_context' = MergeAppend(held, patch, "schema_context")
  /\ query' = MergeReplace(query, patch, "query")
  /\ code_or_query' = MergeReplace(code_or_query, patch, "code_or_query")
  /\ schema_call_count' = MergeReplace(schema_call_count, patch, "schema_call_count")
  /\ mongodb_call_count' = MergeReplace(mongodb_call_count, patch, "mongodb_call_count")
  /\ mongodb_output' = MergeReplace(mongodb_output, patch, "mongodb_output")
  /\ mongodb_query' = MergeReplace(mongodb_query, patch, "mongodb_query")
  /\ python_execute_count' = MergeReplace(python_execute_count, patch, "python_execute_count")
  /\ python_code' = MergeReplace(python_code, patch, "python_code")
  /\ python_code_response' = MergeReplace(python_code_response, patch, "python_code_response")
  /\ generation' = MergeReplace(generation, patch, "generation")
  /\ error' = MergeReplace(error, patch, "error")

\* No node but get_schema_context writes into the state object it is given.
Untouched == snapshot' = schema_context

\* The merge of the patch of a node that left its input state as it was.
Merge(patch) ==
  /\ MergeInto(schema_context, patch)
  /\ Untouched

\* The node ran once more.
Ran(node) ==
  /\ runs' = [runs EXCEPT ![node] = @ + 1]
  /\ before' = << mongodb_call_count, python_execute_count >>
  /\ UNCHANGED << turn, other >>

\* An exception leaves the node: nothing is merged, the walk stops.
Throw(node, exc) ==
  /\ pc' = ABORT
  /\ raised' = exc
  /\ Ran(node)
  /\ Untouched
  /\ UNCHANGED << fields, reformat, label >>

\* The node returned `patch` and its outgoing edge is fixed.
StepFixed(node, patch) ==
  IF IsRaise(patch) THEN Throw(node, patch.raise) /\ UNCHANGED tool_results
  ELSE /\ Merge(patch)
       /\ Ran(node)
       /\ pc' = FixedEdges[node]
       /\ UNCHANGED << reformat, label, tool_results, raised >>

\* The walk follows the label `result` its router returned on the merged state.
Follow(node, result) ==
  /\ label' = result
  /\ pc' = Target(node, result)
  /\ raised' = Exception(node, result)

\* ---------------------------------------------------------------- actions
\* The state app.ainvoke is given: the user's message (agent.py:128-131,
\* interface/app.py:65) and whatever branch counters the incoming state
\* carries; every other key is missing and reads as its default.
\* No second invocation is in progress.
NoSession == [ pc |-> "<none>" ]

\* The state one invocation of app starts from.
SessionInit ==
  /\ pc = "set_query"
  /\ \E q \in Queries : messages = << HumanMessage(q) >>
  /\ query = Absent
  /\ code_or_query = Absent
  /\ schema_context = <<>>
  /\ schema_call_count = 0
  /\ mongodb_call_count \in CarriedCounts
  /\ mongodb_output = <<>>
  /\ mongodb_query = <<>>
  /\ python_execute_count \in CarriedCounts
  /\ python_code = "No code has been generated yet"
  /\ python_code_response = Absent
  /\ generation = Absent
  /\ error = Absent
  /\ reformat = "none"
  /\ label = "none"
  /\ tool_results = <<>>
  /\ raised = "none"
  /\ before = << mongodb_call_count, python_execute_count >>
  /\ snapshot = <<>>
  /\ runs = [n \in Nodes |-> 0]

Init ==
  /\ SessionInit
  /\ turn = 1
  /\ other = NoSession

Node_set_query ==
  /\ pc = "set_query"
  /\ StepFixed("set_query", set_query)

\* Whether the state object handed to a node has the key "schema_context":
\* the declaration of the key is in gamer_x/utils/state.py.
StateHasSchemaContext == BOOLEAN

\* state.get("schema_context", []) is the state's own list when the state has
\* the key and a new list when it has not; the node appends to that list in
\* place (schema_context.py:62, 75) and returns it, and the store appends the
\* returned list to the one it holds.
Node_get_schema_context ==
  /\ pc = "get_schema_context"
  /\ \E outcome \in LlmOutcomes("schema of the database"), has_key \in StateHasSchemaContext :
       LET patch == get_schema_context(outcome)
           held == IF has_key THEN Append(schema_context, outcome.content)
                   ELSE schema_context
       IN  IF IsRaise(patch)
             THEN Throw("get_schema_context", patch.raise) /\ UNCHANGED tool_results
             ELSE /\ MergeInto(held, patch)
                  /\ snapshot' = held
                  /\ Ran("get_schema_context")
                  /\ pc' = FixedEdges["get_schema_context"]
                  /\ UNCHANGED << reformat, label, tool_results, raised >>

Node_code_query_assignment ==
  /\ pc = "code_query_assignment"
  /\ \E outcome \in { Response(r, <<>>) : r \in Routes } \cup { Raises(t) : t \in ErrorTexts } :
       LET patch == code_query_assignment(outcome) IN
       IF IsRaise(patch)
         THEN Throw("code_query_assignment", patch.raise) /\ UNCHANGED tool_results
       ELSE /\ Merge(patch)
            /\ Ran("code_query_assignment")
            /\ Follow("code_query_assignment", code_query_router(code_or_query'))
            /\ UNCHANGED << reformat, tool_results >>

Node_execute_mongodb_query ==
  /\ pc = "execute_mongodb_query"
  /\ \E outcome \in AgentOutcomes("answer from the records", "get_records") :
       LET patch == execute_mongodb_query(outcome) IN
       IF IsRaise(patch)
         THEN Throw("execute_mongodb_query", patch.raise) /\ UNCHANGED tool_results
       ELSE /\ Merge(patch)
            /\ Ran("execute_mongodb_query")
            /\ Follow("execute_mongodb_query",
                      should_continue_mongodb(messages', mongodb_call_count'))
            /\ UNCHANGED << reformat, tool_results >>

Node_mongodb_execute_tools ==
  /\ pc = "mongodb_execute_tools"
  /\ \E results \in [1..Len(Last(messages).tool_calls) -> ToolOutcomes] :
       LET patch == get_mongodb_execute_tools(results) IN
       /\ tool_results' = results
       /\ IF IsRaise(patch) THEN Throw("mongodb_execute_tools", patch.raise)
          ELSE
            /\ Merge(patch)
            /\ Ran("mongodb_execute_tools")
            /\ pc' = FixedEdges["mongodb_execute_tools"]
            /\ UNCHANGED << reformat, label, raised >>

Node_python_formatter ==
  /\ pc = "python_formatter"
  /\ \E outcome \in LlmOutcomes("print(records)") :
       LET patch == python_formatter(outcome) IN
       /\ Merge(patch)
       /\ Ran("python_formatter")
       /\ Follow("python_formatter", should_execute(code_or_query'))
       /\ UNCHANGED << reformat, tool_results >>

Node_python_summarizer ==
  /\ pc = "python_summarizer"
  /\ \E outcome \in LlmOutcomes("summary of the script") :
       StepFixed("python_summarizer", python_summarizer(outcome))

Node_python_executor ==
  /\ pc = "python_executor"
  /\ \E outcome \in AgentOutcomes("summary of the execution", "run_script") :
       LET patch == python_executor(outcome) IN
       /\ Merge(patch)
       /\ Ran("python_executor")
       /\ Follow("python_executor",
                 should_continue_python_run(messages', python_execute_count'))
       /\ UNCHANGED << reformat, tool_results >>

Node_validate_python_script ==
  /\ pc = "validate_python_script"
  /\ \E results \in [1..Len(Last(messages).tool_calls) -> ToolOutcomes] :
       LET patch == run_python_script(results) IN
       /\ tool_results' = results
       /\ IF IsRaise(patch) THEN Throw("validate_python_script", patch.raise)
          ELSE
            /\ Merge(patch)
            /\ Ran("validate_python_script")
            /\ \E decision \in { Response(l, <<>>) : l \in ReformatLabels }
                                 \cup { Raises(t) : t \in ErrorTexts } :
                 /\ reformat' = should_reformat(decision)
                 /\ Follow("validate_python_script", reformat')

Next ==
  \/ Node_set_query
  \/ Node_get_schema_context
  \/ Node_code_query_assignment
  \/ Node_execute_mongodb_query
  \/ Node_mongodb_execute_tools
  \/ Node_python_formatter
  \/ Node_python_summarizer
  \/ Node_python_executor
  \/ Node_validate_python_script

Spec == Init /\ [][Next]_vars

\* Type invariant.
TypeOK ==
  /\ pc \in Nodes \cup { END, ABORT }
  /\ mongodb_call_count \in Nat
  /\ python_execute_count \in Nat
  /\ runs \in [Nodes -> Nat]
  /\ before \in Nat \X Nat

\* ================================================================= claims
\* The walk has stopped: at the terminal node, or by an exception.
Stopped == pc \in { END, ABORT }

\* How many messages of the log request at least one tool invocation.  Only
\* execute_mongodb_query and python_executor produce such messages, one per call
\* that answered with tool calls.
ToolRequests ==
  Cardinality({ i \in 1..Len(messages) :
                  HasToolCallsAttr(messages[i]) /\ messages[i].tool_calls # <<>> })

\* Every call of the data-query generation step so far requested a tool call.
EveryGenerationRequestedTool ==
  /\ runs["execute_mongodb_query"] >= 1
  /\ ToolRequests = runs["execute_mongodb_query"]

\* Every call of python_executor so far requested a tool call.
EveryExecutorRequestedTool ==
  /\ runs["python_executor"] >= 1
  /\ ToolRequests = runs["python_executor"]

\* C1: whatever the capabilities do, a session reaches END after a bounded
\* number of steps: in every state either a step is still to be run or the walk
\* is at END; it never stops anywhere else.
C1_StopsOnlyAtEND == (pc = END) \/ (ENABLED Next)

\* C2: when every call of execute_mongodb_query requests a tool call, the
\* data-query branch ends after exactly 5 generation calls (4 "continue"
\* decisions, then a forced "end").
C2_EndsAfterFiveGenerationCalls ==
  (Stopped /\ EveryGenerationRequestedTool)
    => /\ pc = END
       /\ runs["execute_mongodb_query"] = 5
       /\ runs["mongodb_execute_tools"] = 4

\* C3: in any session mongodb_execute_tools is executed at most 4 times.
C3_AtMostFourToolSteps == runs["mongodb_execute_tools"] <= 4

\* C4: when every python_executor call requests a tool call, whatever the
\* reformat decisions are, validate_python_script runs exactly 3 times and the
\* branch then ends at the next continuation check with python_execute_count
\* = 3; it never runs a 4th time.
C4_ExactlyThreeExecutions ==
  /\ runs["validate_python_script"] <= 3
  /\ (Stopped /\ EveryExecutorRequestedTool)
       => /\ pc = END
          /\ runs["validate_python_script"] = 3
          /\ python_execute_count = 3

\* C5: a terminal state never has both a populated generation and a populated
\* error.
C5_GenerationErrorExclusive ==
  Stopped => ~(Populated(generation) /\ Populated(error))

\* A session that ended at END with the error of an oversized input.
C5_Witness ==
  pc = END /\ Populated(error) /\ runs["execute_mongodb_query"] >= 1

\* C6: every session that reaches END without a populated error has a populated
\* generation, also when the loop guard forced "end" while the last generation
\* call still requested a tool.
C6_GenerationUnlessError ==
  (pc = END /\ ~Populated(error)) => Populated(generation)

\* C7: on any cycle of the data-query loop, when the generation capability fails
\* with the input-too-long error, error is set to the user-facing message, no
\* message is added and the very next transition goes to END.
C7_TooLongGoesToEND ==
  [][ (pc = "execute_mongodb_query" /\ ~Populated(error) /\ Populated(error'))
        => /\ error' = TooLongUserMessage
           /\ messages' = messages
           /\ pc' = END ]_vars

\* C8: a failure of a capability call never propagates past the step that made
\* the call: no session is aborted by the exception of a capability, or by the
\* UnboundLocalError that follows it in execute_mongodb_query.
C8_NoCapabilityFailureEscapes ==
  raised \notin (ErrorTexts \cup { "UnboundLocalError" })

\* The tool step `node` runs and at least one of its invocations fails.
C9_FailedBy(node) ==
  /\ pc = node
  /\ runs'[node] = runs[node] + 1
  /\ \E i \in DOMAIN tool_results' : tool_results'[i] = "raise"

\* One tool message per invocation is appended, in order, with the name and the
\* identifier of the invocation; it holds the failure text iff the invocation
\* failed.
C9_FailureTextAppended ==
  LET calls == Last(messages).tool_calls IN
  /\ Len(messages') = Len(messages) + Len(calls)
  /\ SubSeq(messages', 1, Len(messages)) = messages
  /\ \A i \in 1..Len(calls) :
       LET m == messages'[Len(messages) + i] IN
       /\ m.type = "tool"
       /\ m.name = calls[i].name
       /\ m.tool_call_id = calls[i].id
       /\ (tool_results'[i] = "raise") <=> (m.content = ToolErrorText)

C10_ReformatLabelsRouted ==
  [][ (pc = "validate_python_script" /\ reformat' \in ReformatLabels)
        => /\ pc' # ABORT
           /\ (reformat' = "reformat") => (pc' = "python_formatter")
           /\ (reformat' = "no_reformat") => (pc' = "python_executor") ]_vars

\* The nodes of the two branches (agent.py:73-109).
DataQueryNodes == { "execute_mongodb_query", "mongodb_execute_tools" }
CodeNodes ==
  { "python_formatter", "python_summarizer", "python_executor", "validate_python_script" }

\* A node of the set has been executed in this session.
HasRun(nodes) == \E n \in nodes : runs[n] > 0

\* C11: the branch is selected once per session, by code_query_router after
\* code_query_assignment: the data-query branch iff the classification is
\* "mongodb_query", otherwise the code branch; no session executes, or is about
\* to execute, steps of both branches.
C11_BranchSelectedOnce ==
  /\ runs["code_query_assignment"] <= 1
  /\ (HasRun(DataQueryNodes) \/ pc \in DataQueryNodes)
       => /\ code_or_query = "mongodb_query"
          /\ runs["code_query_assignment"] = 1
          /\ ~HasRun(CodeNodes)
  /\ (HasRun(CodeNodes) \/ pc \in CodeNodes)
       => /\ code_or_query \in Routes \ { "mongodb_query" }
          /\ runs["code_query_assignment"] = 1
          /\ ~HasRun(DataQueryNodes)
  /\ (code_or_query = "mongodb_query" /\ pc \in Nodes) => pc \in DataQueryNodes
  /\ (code_or_query \in Routes \ { "mongodb_query" } /\ pc \in Nodes) => pc \in CodeNodes

\* A data-query session at END: both data-query steps ran, no code step did.
C11_Witness ==
  /\ pc = END
  /\ code_or_query = "mongodb_query"
  /\ runs["execute_mongodb_query"] >= 2
  /\ runs["mongodb_execute_tools"] >= 1

\* C12: in the code branch the generated code is executed only for the route
\* "python_script_execute": for any other route the session runs
\* python_formatter, then python_summarizer, then END, never python_executor or
\* validate_python_script, and ends with python_execute_count = 0; for the
\* execute route python_summarizer never runs, also after a reformat.
C12_ExecuteOnlyOnRequest ==
  /\ (code_or_query \in Routes \ { "mongodb_query", "python_script_execute" })
       => /\ runs["python_executor"] = 0
          /\ runs["validate_python_script"] = 0
          /\ python_execute_count = 0
          /\ pc \in { "python_formatter", "python_summarizer", END }
          /\ runs["python_formatter"] = (IF pc = "python_formatter" THEN 0 ELSE 1)
          /\ runs["python_summarizer"] = (IF pc = END THEN 1 ELSE 0)
  /\ (code_or_query = "python_script_execute")
       => /\ runs["python_summarizer"] = 0
          /\ pc # "python_summarizer"

\* A session whose route does not request execution, ended after the summary.
C12_Witness ==
  /\ pc = END
  /\ code_or_query = "python"
  /\ runs["python_formatter"] = 1
  /\ runs["python_summarizer"] = 1

\* A session with the execute route in which a reformat sent control back to
\* python_formatter.
C12_WitnessReformat ==
  /\ code_or_query = "python_script_execute"
  /\ runs["python_formatter"] >= 2

\* The step just taken appended a message that requests tool invocations.
ProducedPendingToolCalls ==
  /\ Len(messages') > Len(messages)
  /\ Last(messages').tool_calls # <<>>

\* C13: after every generation step of the data-query branch that returns a
\* patch, should_continue_mongodb returns "end" exactly when the step produced no
\* pending tool invocations or mongodb_call_count is greater than 4, and
\* "continue" otherwise.
C13_MongodbContinuation ==
  [][ (pc = "execute_mongodb_query" /\ raised' # "UnboundLocalError")
        => label' = (IF ~ProducedPendingToolCalls \/ mongodb_call_count' > 4
                       THEN "end" ELSE "continue") ]_vars

\* C14: after every python_executor step should_continue_python_run returns
\* "end" exactly when python_execute_count is at least 3 or the message of the
\* step requests no tool invocation, and "continue" otherwise; the label is the
\* edge taken, so the counter test ends the session even with invocations
\* pending.
C14_PythonRunContinuation ==
  [][ pc = "python_executor"
        => /\ label' = (IF python_execute_count' >= 3 \/ ~ProducedPendingToolCalls
                          THEN "end" ELSE "continue")
           /\ pc' = (IF label' = "end" THEN END ELSE "validate_python_script") ]_vars

\* The counter test won: the session ended at the third execution although the
\* last python_executor message requests a tool invocation.
C14_Witness ==
  /\ pc = END
  /\ label = "end"
  /\ runs["python_executor"] = 4
  /\ python_execute_count = 3
  /\ Last(messages).tool_calls # <<>>

\* C15: both branch counters are non-negative in every state; after set_query
\* neither is ever decremented, mongodb_call_count is changed only by
\* mongodb_execute_tools and python_execute_count only by
\* validate_python_script, so a session of the code branch keeps
\* mongodb_call_count at 0 and a session of the data-query branch keeps
\* python_execute_count at 0.
C15_CountersScopedToBranch ==
  /\ [](/\ mongodb_call_count \in Nat
        /\ python_execute_count \in Nat
        /\ (runs["set_query"] > 0 /\ ~HasRun(DataQueryNodes)) => mongodb_call_count = 0
        /\ (runs["set_query"] > 0 /\ ~HasRun(CodeNodes)) => python_execute_count = 0)
  /\ [][ pc # "set_query"
           => /\ mongodb_call_count' >= mongodb_call_count
              /\ python_execute_count' >= python_execute_count
              /\ (mongodb_call_count' # mongodb_call_count => pc = "mongodb_execute_tools")
              /\ (python_execute_count' # python_execute_count => pc = "validate_python_script") ]_vars

\* A code-branch session that used its three executions.
C15_Witness ==
  /\ pc = END
  /\ python_execute_count = 3
  /\ mongodb_call_count = 0
  /\ runs["validate_python_script"] = 3

\* A data-query session that ran its tool step.
C15_WitnessDataQuery ==
  /\ pc = END
  /\ mongodb_call_count >= 1
  /\ python_execute_count = 0

\* C16: set_query is the first step of every session and sets both branch
\* counters to 0 whatever values the state the session was started with
\* carries; every later step is taken from a state the reset has acted on.
C16_CountersResetAtStart ==
  /\ [](/\ runs["set_query"] = 0 => (pc = "set_query" /\ \A n \in Nodes : runs[n] = 0)
        /\ runs["set_query"] <= 1
        /\ pc = "get_schema_context"
             => (mongodb_call_count = 0 /\ python_execute_count = 0))
  /\ [][ pc = "set_query"
           => /\ pc' = "get_schema_context"
              /\ mongodb_call_count' = 0
              /\ python_execute_count' = 0 ]_vars

\* set_query has acted on a state that carried both counters beyond their limits.
C16_Witness ==
  /\ pc = "get_schema_context"
  /\ runs["set_query"] = 1
  /\ before = << MaxCarriedCount, MaxCarriedCount >>
  /\ mongodb_call_count = 0
  /\ python_execute_count = 0

\* The nodes whose patch carries the key `generation`.
GenerationWriters ==
  { "execute_mongodb_query", "python_formatter", "python_summarizer", "python_executor" }

\* C17 as stated: generation is set once, by a step that is followed by no
\* other step, and never changes once it is populated.
C17_GenerationSetOnce ==
  [][ generation' # generation => (~Populated(generation) /\ pc' = END) ]_vars

\* C17, amended: generation is written only by execute_mongodb_query,
\* python_formatter, python_summarizer and python_executor.  The data-query
\* branch writes it once, on the generation call that ends the session.  In the
\* code branch every python_formatter, python_summarizer and python_executor
\* call stores the content of the message it appends, overwriting the value of
\* the earlier steps, so that at END generation is the output of the last step.
C17_GenerationIsLastOutput ==
  /\ [][ /\ generation' # generation => pc \in GenerationWriters
         /\ (pc = "execute_mongodb_query" /\ generation' # generation)
              => (~Populated(generation) /\ pc' = END)
         /\ pc \in GenerationWriters \ { "execute_mongodb_query" }
              => generation' = Last(messages').content ]_vars
  /\ []((pc = END /\ HasRun(CodeNodes)) => generation = Last(messages).content)

\* A session of the code branch at END in which python_executor replaced the
\* generation python_formatter had stored.
C17_Witness ==
  /\ pc = END
  /\ runs["python_formatter"] >= 1
  /\ runs["python_executor"] >= 2
  /\ generation = Last(messages).content
  /\ generation # python_code

\* C18: the message log is append-only: after every step the log of the previous
\* state is a prefix of the new log.
C18_MessagesAppendOnly ==
  [][ /\ Len(messages') >= Len(messages)
      /\ SubSeq(messages', 1, Len(messages)) = messages ]_vars

\* A finished data-query session whose log holds the query, the context, a
\* tool request, the tool's result and the answer, in the order they were made.
C18_Witness ==
  /\ pc = END
  /\ Len(messages) >= 5
  /\ messages[1].type = "human"
  /\ messages[3].tool_calls # <<>>
  /\ messages[4].type = "tool"
  /\ Populated(generation) /\ Last(messages).content = generation

\* C19: the length of schema_context never decreases and every fragment present
\* keeps its position and its text through every step; a get_schema_context
\* call that returns adds its fragment, the content of the response, at the end.
C19_SchemaContextMonotonic ==
  [][ /\ Len(schema_context') >= Len(schema_context)
      /\ SubSeq(schema_context', 1, Len(schema_context)) = schema_context
      /\ (pc = "get_schema_context" /\ raised' = "none")
           => /\ Len(schema_context') > Len(schema_context)
              /\ Last(schema_context') = Last(messages').content ]_vars

\* The fragment get_schema_context added is still in place at the end of a
\* session that ran further steps.
C19_Witness ==
  /\ pc = END
  /\ runs["get_schema_context"] = 1
  /\ Len(schema_context) = 1
  /\ schema_context[1] = messages[2].content
  /\ Len(messages) >= 4

\* The first generation call of a data-query session answered without
\* requesting a tool.
FirstGenerationCallIsFinal ==
  /\ code_or_query = "mongodb_query"
  /\ Len(messages) >= 3
  /\ messages[3].type = "ai"
  /\ messages[3].tool_calls = <<>>

\* C20: when the first generation call of the data-query branch returns an
\* answer with no tool calls, the session is at END after that one call,
\* mongodb_execute_tools never ran, mongodb_call_count is 0 and generation is
\* the answer.
C20_ScenarioA ==
  FirstGenerationCallIsFinal
    => /\ pc = END
       /\ label = "end"
       /\ runs["execute_mongodb_query"] = 1
       /\ runs["mongodb_execute_tools"] = 0
       /\ mongodb_call_count = 0
       /\ generation = messages[3].content
       /\ Len(messages) = 3

C20_Witness ==
  /\ FirstGenerationCallIsFinal
  /\ pc = END
  /\ runs["execute_mongodb_query"] = 1
  /\ Populated(generation)

\* C21: scenario B.  With the execute route, when the first validation returns
\* "reformat" control goes back to python_formatter and then python_executor;
\* when the second validation returns "no_reformat" control goes back to
\* python_executor with the same code; when that call requests no tool the
\* session is at END with python_execute_count = 2 and a populated generation.
C21_ScenarioB ==
  /\ (runs["validate_python_script"] = 1 /\ reformat = "reformat")
       => /\ pc \in { "python_formatter", "python_executor", "validate_python_script", END }
          /\ runs["python_formatter"] = (IF pc = "python_formatter" THEN 1 ELSE 2)
  /\ (runs["validate_python_script"] = 2 /\ runs["python_formatter"] = 2
        /\ reformat = "no_reformat")
       => /\ pc \in { "python_executor", "validate_python_script", END }
          /\ python_execute_count = 2
          /\ (pc = END /\ Last(messages).tool_calls = <<>>)
               => (runs["python_executor"] = 3 /\ Populated(generation))

\* The generation capability failed with the input-too-long error on the first
\* cycle of the data-query branch.
TooLongOnFirstCycle ==
  /\ Populated(error)
  /\ runs["execute_mongodb_query"] = 1

\* C22: scenario D.  When the first generation call of the data-query branch
\* fails with the input-too-long error the session is at END right after that
\* step, with error populated, no generation, mongodb_call_count = 0, no tool
\* step executed and no message added.
C22_ScenarioD ==
  TooLongOnFirstCycle
    => /\ pc = END
       /\ raised = "none"
       /\ error = TooLongUserMessage
       /\ ~Populated(generation)
       /\ mongodb_call_count = 0
       /\ runs["mongodb_execute_tools"] = 0
       /\ Len(messages) = 2

C22_Witness ==
  /\ TooLongOnFirstCycle
  /\ pc = END
  /\ label = "end"
  /\ code_or_query = "mongodb_query"

\* --------------------------------------------------------- the entry point
\* What app.ainvoke returns: the terminal state, a dict keyed by the state keys.
\* hasattr on a dict finds the dict's methods, never its keys.
DictAttributes == { "get", "items", "keys", "values", "pop", "update", "setdefault" }
hasattr(name) == name \in DictAttributes

\* agent.py:139-142: which value main hands to its caller.
main ==
  IF hasattr("generation") THEN "answer[generation]" ELSE "answer"

\* C23: main returns the value of generation alone whenever the terminal state
\* has a populated generation, not the whole terminal state.
C23_MainReturnsGeneration ==
  (pc = END /\ Populated(generation)) => main = "answer[generation]"

\* C24: query is written by set_query, from the content of the last message of
\* the log the session was started with, and by no later step: from then on it
\* is the user's text on every path.
C24_QueryImmutable ==
  /\ [][ IF pc = "set_query"
           THEN query' = Last(messages).content
           ELSE query' = query ]_vars
  /\ [](runs["set_query"] = 1 => query = messages[1].content)

\* A session at END, several steps after set_query, still holding the query.
C24_Witness ==
  /\ pc = END
  /\ query = messages[1].content
  /\ query \in Queries
  /\ Len(messages) >= 4

StepToolNames ==
  [ mongodb_execute_tools |-> { "get_records", "aggregation_retrieval" },
    validate_python_script |-> { "run_script", "install_package" } ]

\* The tool_calls lists of 1..MaxStepCalls invocations for the tool step `node`.
ToolStepRequests(node) ==
  UNION { { [i \in 1..k |-> ToolCall(names[i], i)] : names \in [1..k -> StepToolNames[node]] }
          : k \in 1..MaxStepCalls }

ToolStepInit ==
  \E q \in Queries, node \in DOMAIN StepToolNames :
  \E calls \in ToolStepRequests(node) :
    LET data == node = "mongodb_execute_tools"
        head == << HumanMessage(q), AIMessage("schema of the database", <<>>) >>
    IN
    /\ pc = node
    /\ messages =
         IF data THEN head \o << AIMessage("answer from the records", calls) >>
         ELSE head \o << HumanMessage("print(records)"),
                         AIMessage("summary of the execution", calls) >>
    /\ query = q
    /\ code_or_query = (IF data THEN "mongodb_query" ELSE "python_script_execute")
    /\ schema_context = << "schema of the database" >>
    /\ schema_call_count = 0
    /\ mongodb_call_count = 0
    /\ mongodb_output = <<>>
    /\ mongodb_query = <<>>
    /\ python_execute_count = 0
    /\ python_code = (IF data THEN "No code has been generated yet" ELSE "print(records)")
    /\ python_code_response = "Code hasn't been executed yet"
    /\ generation = (IF data THEN Absent ELSE "summary of the execution")
    /\ error = Absent
    /\ reformat = "none"
    /\ label = "continue"
    /\ tool_results = <<>>
    /\ raised = "none"
    /\ before = << 0, 0 >>
    /\ snapshot = schema_context
    /\ runs = [ n \in Nodes |->
                  IF n \in { "set_query", "get_schema_context", "code_query_assignment" } THEN 1
                  ELSE IF data /\ n = "execute_mongodb_query" THEN 1
                  ELSE IF ~data /\ n \in { "python_formatter", "python_executor" } THEN 1
                  ELSE 0 ]
    /\ turn = 1
    /\ other = NoSession

ToolStepNext ==
  \/ Node_mongodb_execute_tools
  \/ Node_validate_python_script

ToolStepSpec == ToolStepInit /\ [][ToolStepNext]_vars


\* The step taken is a tool step and answers every invocation of its request.
AnswersEveryInvocation ==
  LET calls == Last(messages).tool_calls
      n == Len(messages)
  IN  /\ Len(messages') = n + Len(calls)
      /\ SubSeq(messages', 1, n) = messages
      /\ \A i \in 1..Len(calls) :
           /\ messages'[n + i].type = "tool"
           /\ messages'[n + i].name = calls[i].name
           /\ messages'[n + i].tool_call_id = calls[i].id
           /\ messages'[n + i].content =
                (IF tool_results'[i] = "ok" THEN JsonDumps("records") ELSE ToolErrorText)

\* C27: a tool step appends exactly one tool message per invocation requested
\* by the last message, in the order of the invocations, each with the name and
\* the identifier of its invocation and with the serialized result when the
\* invocation succeeded, the error text when it failed.
C27_OneToolMessagePerInvocation ==
  [][ (pc \in DOMAIN StepToolNames) => AnswersEveryInvocation ]_vars

\* A request of three invocations of two tools, the second of which failed, has
\* been answered.
C27_Witness ==
  /\ Len(tool_results) = 3
  /\ tool_results = << "ok", "raise", "ok" >>
  /\ LET n == Len(messages) - 3 IN
       /\ messages[n].tool_calls # <<>>
       /\ messages[n].tool_calls[1].name # messages[n].tool_calls[2].name
       /\ \A i \in 1..3 : messages[n + i].tool_call_id = i
       /\ messages[n + 2].content = ToolErrorText

\* The texts python_summarizer and python_executor report a failed call with.
CallFailureTexts ==
  { FailedText(who, e) : who \in { "Python summarizer", "Python executor" }, e \in ErrorTexts }

\* C26: a failure of the capability call of python_summarizer or python_executor
\* never leaves the step; it is appended as one message without tool
\* invocations whose text carries the failure, generation is that text, and the
\* next transition goes to END.
C26_CodeBranchFailureEndsSession ==
  [][ (pc \in { "python_summarizer", "python_executor" })
        => /\ pc' # ABORT
           /\ Len(messages') = Len(messages) + 1
           /\ Last(messages').content \in CallFailureTexts
                => /\ Last(messages').type = "ai"
                   /\ Last(messages').tool_calls = <<>>
                   /\ generation' = Last(messages').content
                   /\ (pc = "python_executor") => (label' = "end")
                   /\ pc' = END ]_vars

\* A session ended by the failure of the execution-planning call after one
\* execution.
C26_Witness ==
  /\ pc = END
  /\ runs["python_executor"] = 2
  /\ generation = FailedText("Python executor", OtherErrorText)
  /\ Last(messages).content = generation
  /\ Last(messages).tool_calls = <<>>

\* C28: a step has no side effect on the state it is given: read after the step,
\* the input state shows the schema_context sequence it showed before it.
C28_InputStateUntouched ==
  [][ snapshot' = schema_context ]_vars

\* The three steps every session starts with (agent.py:49-51).
PreambleNodes == { "set_query", "get_schema_context", "code_query_assignment" }

\* set_query, get_schema_context and code_query_assignment run at most once, in
\* that order, and all three have run before any step of a branch.
PreambleOnceInOrder ==
  /\ \A n \in PreambleNodes : runs[n] <= 1
  /\ runs["code_query_assignment"] <= runs["get_schema_context"]
  /\ runs["get_schema_context"] <= runs["set_query"]
  /\ pc \in PreambleNodes => ~HasRun(DataQueryNodes \cup CodeNodes)
  /\ (pc \in DataQueryNodes \cup CodeNodes \/ HasRun(DataQueryNodes \cup CodeNodes))
       => \A n \in PreambleNodes : runs[n] = 1

\* C29: every session executes set_query, get_schema_context and
\* code_query_assignment once each, in that order, before any branch step, and
\* the single context retrieval leaves exactly one fragment in schema_context.
C29_SingleShotContext ==
  /\ PreambleOnceInOrder
  /\ Len(schema_context) <= 1
  /\ (pc = "code_query_assignment" \/ runs["code_query_assignment"] = 1)
       => Len(schema_context) = 1

\* The nodes followed by one of the routers code_query_router, should_execute,
\* should_continue_mongodb and should_continue_python_run.
PureRouterNodes ==
  { "code_query_assignment", "python_formatter", "execute_mongodb_query", "python_executor" }

\* The label each of these routers owes to the state it is evaluated on, as a
\* function of the fields it reads.
LabelOfState ==
  CASE pc = "code_query_assignment" ->
         IF code_or_query' = "mongodb_query" THEN "mongodb" ELSE "python"
    [] pc = "python_formatter" ->
         IF code_or_query' = "python_script_execute" THEN "execute" ELSE "summarize"
    [] pc = "execute_mongodb_query" ->
         IF Last(messages').type # "ai" THEN "AttributeError"
         ELSE IF Last(messages').tool_calls = <<>> \/ mongodb_call_count' > 4 THEN "end"
         ELSE "continue"
    [] pc = "python_executor" ->
         IF python_execute_count' >= 3 \/ Last(messages').tool_calls = <<>> THEN "end"
         ELSE "continue"

C31_RouteFixedAfterAssignment ==
  [][ /\ (pc # "code_query_assignment") => (code_or_query' = code_or_query)
      /\ (pc = "code_query_assignment" /\ pc' # ABORT) => (code_or_query' \in Routes)
      /\ (pc = "python_formatter" /\ runs["python_formatter"] >= 1)
           => /\ code_or_query = "python_script_execute"
              /\ label' = "execute"
              /\ pc' = "python_executor" ]_vars

\* After a reformat the second evaluation of should_execute sent the session to
\* python_executor, as the first did.
C31_Witness ==
  /\ code_or_query = "python_script_execute"
  /\ runs["validate_python_script"] = 1
  /\ reformat = "yes"
  /\ runs["python_formatter"] = 2
  /\ label = "execute"
  /\ pc = "python_executor"

\* The source of the entry edge.
START == "__start__"

\* Faulty variant of Edges: mongodb_execute_tools has a second outgoing edge.
Edges_FanOut ==
  { << START, "set_query" >>,
    << "set_query", "get_schema_context" >>,
    << "get_schema_context", "code_query_assignment" >>,
    << "mongodb_execute_tools", "execute_mongodb_query" >>,
    << "mongodb_execute_tools", "python_formatter" >>,
    << "python_summarizer", END >> }

\* The add_edge calls of the graph, one pair per call.
Edges ==
  { << START, "set_query" >>,
    << "set_query", "get_schema_context" >>,
    << "get_schema_context", "code_query_assignment" >>,
    << "mongodb_execute_tools", "execute_mongodb_query" >>,
    << "python_summarizer", END >> }

\* The steps the executor schedules once `node` has completed and its router,
\* if it has one, has returned `result`: the targets of all its edges.
Triggered(node, result) ==
  { e[2] : e \in { x \in Edges : x[1] = node } }
    \cup (IF node \in DOMAIN ConditionalEdges /\ Target(node, result) # ABORT
            THEN { Target(node, result) }
            ELSE {})

\* C32: within a session the steps run strictly one at a time.  The walk starts
\* at the single target of the entry edge; a completed step schedules exactly
\* one successor (a node or END), the one the walk moves to, and that successor
\* is the label the router gives on the merged state; an exception schedules
\* none and leaves the walk.  Exactly the active step is counted as run, so the
\* patches are merged in the order the steps complete.
C32_OneStepAtATime ==
  /\ [] ((\A n \in Nodes : runs[n] = 0) => Triggered(START, "none") = { pc })
  /\ [][ (pc \in Nodes)
           => /\ Cardinality(Triggered(pc, label')) <= 1
              /\ (pc' # ABORT) => Triggered(pc, label') = { pc' }
              /\ (pc' = ABORT) => raised' # "none"
              /\ (pc \in PureRouterNodes /\ pc' # ABORT) => label' = LabelOfState
              /\ runs' = [runs EXCEPT ![pc] = @ + 1]
              /\ Len(messages') >= Len(messages)
              /\ SubSeq(messages', 1, Len(messages)) = messages ]_vars

\* A session that went through fixed edges, a conditional edge taken twice and
\* the tool step in between has ended.
C32_Witness ==
  /\ pc = END
  /\ raised = "none"
  /\ runs["mongodb_execute_tools"] = 1
  /\ runs["execute_mongodb_query"] = 2

\* ------------------------------------------------ two invocations of app
\* The state of the invocation the variables belong to, as one record.
Session ==
  [ pc |-> pc, messages |-> messages, query |-> query,
    code_or_query |-> code_or_query, schema_context |-> schema_context,
    schema_call_count |-> schema_call_count,
    mongodb_call_count |-> mongodb_call_count,
    mongodb_output |-> mongodb_output, mongodb_query |-> mongodb_query,
    python_execute_count |-> python_execute_count, python_code |-> python_code,
    python_code_response |-> python_code_response, generation |-> generation,
    error |-> error, reformat |-> reformat, label |-> label,
    tool_results |-> tool_results, raised |-> raised, before |-> before,
    snapshot |-> snapshot, runs |-> runs ]

\* Faulty variant of Resume: the graph keeps one set of channels, so an
\* invocation that resumes finds the message log, the schema context and the
\* counters the other invocation wrote last.
Resume_SharedChannels(parked) ==
  [ parked EXCEPT !.messages = messages,
                  !.schema_context = schema_context,
                  !.mongodb_call_count = mongodb_call_count,
                  !.python_execute_count = python_execute_count ]

\* The graph is compiled without a checkpointer and the nodes keep nothing
\* outside the state they are given: an invocation that resumes after an await
\* finds the state it was suspended with.
Resume(parked) == parked

\* The event loop suspends the running invocation at an await and resumes the
\* other one.
Switch ==
  /\ other # NoSession
  /\ other.pc \in Nodes
  /\ turn' = 3 - turn
  /\ other' = Session
  /\ LET s == Resume(other) IN
     /\ pc' = s.pc
     /\ messages' = s.messages
     /\ query' = s.query
     /\ code_or_query' = s.code_or_query
     /\ schema_context' = s.schema_context
     /\ schema_call_count' = s.schema_call_count
     /\ mongodb_call_count' = s.mongodb_call_count
     /\ mongodb_output' = s.mongodb_output
     /\ mongodb_query' = s.mongodb_query
     /\ python_execute_count' = s.python_execute_count
     /\ python_code' = s.python_code
     /\ python_code_response' = s.python_code_response
     /\ generation' = s.generation
     /\ error' = s.error
     /\ reformat' = s.reformat
     /\ label' = s.label
     /\ tool_results' = s.tool_results
     /\ raised' = s.raised
     /\ before' = s.before
     /\ snapshot' = s.snapshot
     /\ runs' = s.runs

\* The message of the second chat session (interface/app.py:28).
SecondQuery == "tell me about mouse 747107"

\* The second invocation before its first step.
SecondSessionInit ==
  [ pc |-> "set_query", messages |-> << HumanMessage(SecondQuery) >>,
    query |-> Absent, code_or_query |-> Absent, schema_context |-> <<>>,
    schema_call_count |-> 0, mongodb_call_count |-> 0,
    mongodb_output |-> <<>>, mongodb_query |-> <<>>,
    python_execute_count |-> 0,
    python_code |-> "No code has been generated yet",
    python_code_response |-> Absent, generation |-> Absent, error |-> Absent,
    reformat |-> "none", label |-> "none", tool_results |-> <<>>,
    raised |-> "none", before |-> << 0, 0 >>, snapshot |-> <<>>,
    runs |-> [n \in Nodes |-> 0] ]

\* The capability responses of the second invocation: its query is classified
\* as a data query, the first generation requests the tools, every tool
\* succeeds and the second generation is the answer.
SecondResponses ==
  /\ raised = "none"
  /\ code_or_query \in { Absent, "mongodb_query" }
  /\ Len(schema_context) <= 1
  /\ runs["mongodb_execute_tools"] <= 1
  /\ (pc = END) => runs["mongodb_execute_tools"] = 1
  /\ \A i \in 1..Len(tool_results) : tool_results[i] = "ok"
  /\ \A i \in 1..Len(messages) : Len(messages[i].tool_calls) <= 1

\* The capability responses of the first invocation: any, with at most one
\* tool invocation per response.
FirstResponses ==
  \A i \in 1..Len(messages) : Len(messages[i].tool_calls) <= 1

\* Both invocations are given the user's message alone (interface/app.py:65).
PairInit ==
  /\ SessionInit
  /\ mongodb_call_count = 0
  /\ python_execute_count = 0
  /\ turn = 1
  /\ other = SecondSessionInit

PairNext ==
  \/ turn = 1 /\ Next /\ FirstResponses'
  \/ turn = 2 /\ Next /\ SecondResponses'
  \/ Switch

PairSpec == PairInit /\ [][PairNext]_vars


\* The state of the second invocation, running or suspended.
SecondSession == IF turn = 2 THEN Session ELSE other

\* The terminal state the second invocation reaches with SecondResponses when
\* no other invocation runs.
SecondTerminalAlone(s) ==
  /\ s.query = SecondQuery
  /\ s.schema_call_count = 0
  /\ s.mongodb_call_count = 1
  /\ s.python_execute_count = 0
  /\ s.schema_context = << "schema of the database" >>
  /\ s.generation = "answer from the records"
  /\ s.error = Absent
  /\ s.messages[1] = HumanMessage(SecondQuery)
  /\ [i \in 1..Len(s.messages) |-> s.messages[i].type]
       = << "human", "ai", "ai", "tool", "ai" >>
  /\ s.messages[2] = AIMessage("schema of the database", <<>>)
  /\ s.messages[4].content = JsonDumps("records")
  /\ s.messages[5] = AIMessage("answer from the records", <<>>)

PlanningStep ==
  [ mongodb_execute_tools |-> "execute_mongodb_query",
    validate_python_script |-> "python_executor" ]

\* C34: a tool step is entered only from its planning step, by the label
\* "continue", with the message that step has just appended as the last entry
\* of the log, and that message requests at least one tool invocation.  Hence
\* run_python_script never fails for want of a tool result: it stores the
\* content of the last tool message in python_code_response.
C34_ToolStepHasPendingCalls ==
  /\ [] ((pc \in DOMAIN PlanningStep)
           => /\ Last(messages).type = "ai"
              /\ Last(messages).tool_calls # <<>>)
  /\ [][ (pc' \in DOMAIN PlanningStep /\ pc' # pc)
           => /\ pc = PlanningStep[pc']
              /\ label' = "continue"
              /\ messages' = Append(messages, Last(messages')) ]_vars
  /\ [][ (pc = "validate_python_script")
           => /\ raised' \notin { "AttributeError", "UnboundLocalError" }
              /\ Last(messages').type = "tool"
              /\ python_code_response' = Last(messages').content ]_vars

\* run_python_script has run and stored the last tool result.
C34_Witness ==
  /\ runs["validate_python_script"] = 1
  /\ raised = "none"
  /\ Last(messages).type = "tool"
  /\ python_code_response = Last(messages).content
  /\ tool_results # <<>>


\* C35: from the start of the session in set_query on, whatever the capabilities
\* answer, mongodb_call_count is at most 5 and python_execute_count at most 3.
C35_CountersBounded ==
  (runs["set_query"] >= 1)
    => /\ mongodb_call_count <= MongoCallLimit + 1
       /\ python_execute_count <= PythonExecuteLimit
       /\ mongodb_call_count <= 5
       /\ python_execute_count <= 3

\* The data-query branch has used all five cycles and the router has ended it.
C35_Witness ==
  /\ runs["set_query"] = 1
  /\ mongodb_call_count = 5
  /\ runs["mongodb_execute_tools"] = 5
  /\ pc = END

\* The code branch has used all three executions and the router has ended it.
C35_WitnessPython ==
  /\ runs["set_query"] = 1
  /\ python_execute_count = 3
  /\ runs["validate_python_script"] = 3
  /\ pc = END


\* The failure texts of python_formatter.
FormatterFailureTexts == { FailedText("Python formatter", t) : t \in ErrorTexts }

\* C36: when the code-generation call of python_formatter fails, the step
\* appends the failure text to the log and stores it in python_code and in
\* generation; no error is set, nothing is raised, and the walk goes on through
\* should_execute to python_executor or python_summarizer as the route says.
C36_FormatterFailureContinues ==
  [][ (pc = "python_formatter" /\ Last(messages').content \in FormatterFailureTexts)
        => /\ Last(messages').type = "ai"
           /\ python_code' = Last(messages').content
           /\ generation' = Last(messages').content
           /\ error' = error
           /\ raised' = "none"
           /\ label' = should_execute(code_or_query)
           /\ pc' = (IF code_or_query = "python_script_execute"
                       THEN "python_executor" ELSE "python_summarizer") ]_vars

\* After a failed generation the walk is at python_executor with the failure
\* text as the current code.
C36_Witness ==
  /\ pc = "python_executor"
  /\ runs["python_formatter"] = 1
  /\ runs["python_executor"] = 0
  /\ python_code \in FormatterFailureTexts
  /\ generation = python_code

\* The same on the route without execution.
C36_WitnessSummarize ==
  /\ pc = "python_summarizer"
  /\ python_code \in FormatterFailureTexts
  /\ generation = python_code


\* ------------------------------------------------------ chat front-end
\* The progress labels of on_message, by the node name of the streamed event.
step_messages ==
  [ set_query |-> "Setting up your query...",
    get_schema_context |-> "Getting database schema...",
    schema_context_tools |-> "Retrieving schema context",
    code_query_assignment |-> "Determining query type...",
    execute_mongodb_query |-> "Executing MongoDB query...",
    mongodb_execute_tools |-> "Using AIND Data Access API...",
    python_formatter |-> "Formatting Python code...",
    python_executor |-> "Summarizing Python script...",
    run_python_script |-> "Executing Python script...",
    final_node |-> "Preparing final response..." ]

\* The content of the progress message before the first event.
ProcessingText == "Processing your query..."

\* The nodes that have streamed events so far in the session.
SeenNodes == { n \in Nodes : runs[n] >= 1 }

\* What on_message does with the progress message when an event of node
\* `node_name` arrives: a name seen for the first time is remembered, and the
\* content becomes its label when the table has one.
track_progress(seen_nodes, content, node_name) ==
  IF node_name \notin seen_nodes
    THEN [ seen_nodes |-> seen_nodes \cup { node_name },
           content |-> IF node_name \in DOMAIN step_messages
                         THEN step_messages[node_name] ELSE content ]
    ELSE [ seen_nodes |-> seen_nodes, content |-> content ]

\* C37: every node the graph can stream events of has a progress label in
\* step_messages, the progress message takes that label when the node is seen
\* for the first time in the session, and it is left alone when the node is
\* seen again.
C37_EveryStepHasLabel ==
  (pc \in Nodes)
    => LET shown == track_progress(SeenNodes, ProcessingText, pc) IN
       /\ pc \in DOMAIN step_messages
       /\ (pc \notin SeenNodes) => shown.content = step_messages[pc]
       /\ (pc \in SeenNodes) => shown.content = ProcessingText
       /\ shown.seen_nodes = SeenNodes \cup { pc }

====
